---- MODULE Spec2Model ----
(***************************************************************************)
(* The embedding cache and the analogy search of functional_translation   *)
(* (src/server/index.js): the process-wide globals, the two cache files,   *)
(* and the handlers that interleave at their await points.                 *)
(*                                                                         *)
(* Numbers: a Float32 is modelled in fixed point, an integer counting      *)
(* 1/Unit; a product of two of them (a dot product, a squared norm) counts *)
(* 1/Unit^2.  Strings that the code takes apart (a template, a line of the *)
(* vocabulary file) are sequences of tokens; words are atomic strings.     *)
(***************************************************************************)
EXTENDS Integers, Sequences, FiniteSets, TLC

VARIABLES
    embedder,     \* l.28: TRUE once the pipeline is loaded
    vocab,        \* l.29: sequence of words
    dim,          \* l.30: embedding dimension
    matrix,       \* l.31: [isNull, data]: null, or the flat row-major buffer
    normalized,   \* l.32
    vocabFile,    \* VOCAB_PATH: [exists, lines]
    metaFile,     \* CACHE_DIR/meta.json: [state, n, dim, normalized, signature]
    binFile,      \* CACHE_DIR/vocab_embeddings.bin: [exists, data, sig]
    server,       \* "booting" | "listening" | "crashed" (l.410-411)
    proc,         \* the boot sequence (0) and the request handlers in flight
    started,      \* history: number of requests received
    memSig,       \* history: the signature under which `matrix` was last assigned
    mem,          \* history: [by, state]: who assigned `matrix` last, and how far
                  \* its rows have got ("none", "partial", "failed", "complete")
    lastCall,     \* history: [sig, ok, alone]: the call of
                  \* buildOrLoadEmbeddingMatrix that ended last
    edits,        \* history: number of changes made to the files from outside
    batchSize     \* l.20: Number(process.env.BATCH_SIZE || 64), read at start

vars == <<embedder, vocab, dim, matrix, normalized, vocabFile, metaFile, binFile,
          server, proc, started, memSig, mem, lastCall, edits, batchSize>>

(***************************************************************************)
(* Bounds of the model and constants of the program.                       *)
(***************************************************************************)
\* requests received after the boot, and changes made to the files from outside
MaxRequests == 2
MaxEdits == 1
\* the largest k asked for, next to DEFAULT_K
MaxK == 3
\* the length of the provider's vectors (384 for MODEL_ID), and the fixed point
ProviderDim == 2
Unit == 4
\* l.20: taken from the environment (64 when it is not set)
BATCH_SIZE == 2
\* the count of provider calls of a handler is kept modulo this number, above
\* every count a build that ends can reach with the batch size above
CallsModulus == 4
\* l.21
DEFAULT_K == 200

MODEL_ID == "Xenova/all-MiniLM-L6-v2"
PLACEHOLDER == "{w}"
DefaultTemplate == <<PLACEHOLDER>>
ContextTemplate == <<"I saw ", PLACEHOLDER>>
PlainTemplate == <<"plain">>
Templates == {DefaultTemplate, ContextTemplate}

DefaultVocab ==
    << "garden","gardening","belief","believing","fight","fighting",
       "run","running","walk","walking","play","playing","think","thinking",
       "write","writing","drive","driving","code","coding","swim","swimming",
       "invent","inventing","create","creating","design","designing","build","building",
       "teacher","student","pilot","sailor","engineer","scientist","company","market",
       "product","prototype","research","energy","health","transportation","data","model",
       "language","word","verb","noun","adjective","adverb","plural","past","future",
       "fast","faster","fastest","smart","smarter","smartest","happy","happier","happiest",
       "good","better","best","bad","worse","worst","large","larger","largest",
       "dog","dogs","cat","cats","city","cities","child","children","mouse","mice" >>

\* the handlers that can be suspended at the same time, and the boot sequence
Handlers == {1, 2}
Procs == {0} \cup Handlers

Min(a, b) == IF a < b THEN a ELSE b
Max(a, b) == IF a > b THEN a ELSE b
Abs(x) == IF x < 0 THEN -x ELSE x

(***************************************************************************)
(* Float32Array helpers.                                                   *)
(***************************************************************************)
Zeros(n) == [i \in 1..n |-> 0]

RECURSIVE SumSq(_)
SumSq(vec) == IF vec = <<>> THEN 0 ELSE Head(vec) * Head(vec) + SumSq(Tail(vec))

RECURSIVE SumAbs(_)
SumAbs(vec) == IF vec = <<>> THEN 0 ELSE Abs(Head(vec)) + SumAbs(Tail(vec))

\* Math.sqrt on a squared norm (1/Unit^2), giving a norm (1/Unit), rounded down
Sqrt(s, bound) == CHOOSE r \in 0..bound : r * r <= s /\ (r + 1) * (r + 1) > s

\* a / b rounded to the nearest representable value, b > 0
RoundDiv(a, b) ==
    IF a >= 0 THEN (2 * a + b) \div (2 * b) ELSE -((2 * (-a) + b) \div (2 * b))

\* l.37-44
normalizeVec(vec) ==
    LET s == SumSq(vec)
        root == Sqrt(s, SumAbs(vec))
        norm == IF root = 0 THEN Unit ELSE root
    IN  [i \in 1..Len(vec) |-> RoundDiv(vec[i] * Unit, norm)]

RECURSIVE DotFrom(_, _, _)
DotFrom(a, b, i) ==
    IF i > Len(a) THEN 0 ELSE a[i] * b[i] + DotFrom(a, b, i + 1)

\* l.46-50 (b is at least as long as a at every call of the program)
dot(a, b) == DotFrom(a, b, 1)

\* Float32Array.prototype.subarray(start, end), 0-based, clamped to the buffer
subarray(data, start, end) ==
    SubSeq(data, Min(start, Len(data)) + 1, Min(end, Len(data)))

\* l.52-55, on the buffer and the dimension given
getRow(data, d, i) == subarray(data, i * d, i * d + d)

\* Float32Array.prototype.set(source, offset): a RangeError when it does not fit
SetAt(data, src, offset) ==
    IF offset + Len(src) > Len(data)
    THEN [ok |-> FALSE, data |-> data]
    ELSE [ok |-> TRUE,
          data |-> [k \in 1..Len(data) |->
                      IF k > offset /\ k <= offset + Len(src)
                      THEN src[k - offset] ELSE data[k]]]

(***************************************************************************)
(* Strings.                                                                *)
(***************************************************************************)
\* template.includes('{w}')
includesPlaceholder(template) == \E i \in 1..Len(template) : template[i] = PLACEHOLDER

\* template.replaceAll('{w}', w)
replaceAll(template, w) ==
    [i \in 1..Len(template) |-> IF template[i] = PLACEHOLDER THEN w ELSE template[i]]

\* l.57-60
wordsToTexts(words, template) ==
    [i \in 1..Len(words) |->
        IF includesPlaceholder(template) THEN replaceAll(template, words[i])
        ELSE <<words[i]>>]

\* a serialization that leaves the template out of the signature
stringify_NoTemplate(obj) ==
    <<"{", "model", obj.model, "dim", ToString(obj.dim), "vocab", "[">>
    \o obj.vocab \o <<"]">> \o <<"}">>

\* JSON.stringify of {model, dim, vocab, contextTemplate}, as tokens
stringify(obj) ==
    <<"{", "model", obj.model, "dim", ToString(obj.dim), "vocab", "[">>
    \o obj.vocab \o <<"]", "contextTemplate">> \o obj.contextTemplate \o <<"}">>

\* l.35: the digest of the serialization (SHA-256 taken as collision free)
hashJSON(obj) == <<"sha256">> \o stringify(obj)

(***************************************************************************)
(* The embedding provider (external): a fixed map from texts to vectors of *)
(* ProviderDim numbers, not assumed to be of unit length.                  *)
(***************************************************************************)
Lexicon == DefaultVocab \o <<"work", "working">>

Code(w) == CHOOSE i \in 1..Len(Lexicon) : Lexicon[i] = w

Emb(text) ==
    LET c == Code(text[Len(text)])
        ctx == Len(text) - 1
    IN  [j \in 1..ProviderDim |->
            Unit * ((((c * (2 * j + 1)) + (c \div 4) + ctx * (c + j)) % 5) - 2)]

RECURSIVE Concat(_)
Concat(vecs) == IF vecs = <<>> THEN <<>> ELSE Head(vecs) \o Concat(Tail(vecs))

\* What the pipeline may answer to a batch: one item per text, one tensor with
\* the vectors concatenated, one item too few, an item that is no vector, an
\* exception.
ItemsOf(texts) == [i \in 1..Len(texts) |-> [isVec |-> TRUE, data |-> Emb(texts[i])]]

OutPerItem(texts) == [kind |-> "array", items |-> ItemsOf(texts), data |-> <<>>]
OutTensor(texts) ==
    [kind |-> "tensor", items |-> <<>>, data |-> Concat([i \in 1..Len(texts) |-> Emb(texts[i])])]
OutShort(texts) ==
    [kind |-> "array", items |-> SubSeq(ItemsOf(texts), 1, Len(texts) - 1), data |-> <<>>]
OutBadItem(texts) ==
    [kind |-> "array",
     items |-> [i \in 1..Len(texts) |->
                  IF i = 1 THEN [isVec |-> FALSE, data |-> <<>>] ELSE ItemsOf(texts)[i]],
     data |-> <<>>]
OutThrow == [kind |-> "throw", items |-> <<>>, data |-> <<>>]

ProviderOutputs(texts) ==
    {OutPerItem(texts), OutTensor(texts), OutShort(texts), OutBadItem(texts), OutThrow}

\* l.73-108 on the pipeline's answer `out` and the global dim: [err, vecs]
embedMany(out, d) ==
    IF out.kind = "throw" THEN [err |-> "provider threw", vecs |-> <<>>]
    ELSE IF out.kind = "array"
    THEN IF \E i \in 1..Len(out.items) : ~out.items[i].isVec
         THEN [err |-> "Unexpected embedding output (array case)", vecs |-> <<>>]
         ELSE [err |-> "", vecs |-> [i \in 1..Len(out.items) |-> out.items[i].data]]
    ELSE IF d = 0 THEN [err |-> "Embedding dimension not initialized", vecs |-> <<>>]
    ELSE LET vec == out.data
             n == (2 * Len(vec) + d) \div (2 * d)
         IN  IF n * d # Len(vec) THEN [err |-> "", vecs |-> <<vec>>]
             ELSE IF n = 1 THEN [err |-> "", vecs |-> <<vec>>]
             ELSE [err |-> "", vecs |-> [i \in 1..n |-> subarray(vec, (i - 1) * d, i * d)]]

(***************************************************************************)
(* The vocabulary source: a file of lines, or no file.  A line is          *)
(* [pad, text]: its text with white space around it.                       *)
(***************************************************************************)
Line(w) == [pad |-> "", text |-> w]
Padded(w) == [pad |-> " ", text |-> w]

NoVocabFile == [exists |-> FALSE, lines |-> <<>>]
VocabFileA ==
    [exists |-> TRUE,
     lines |-> <<Line("garden"), Padded("gardening"), Line(""), Line("work"),
                 Line("garden"), Padded(""), Line("working")>>]
VocabFileB == [exists |-> TRUE, lines |-> <<Line("working"), Line("work")>>]
VocabFiles == {VocabFileA, VocabFileB}

trim(line) == line.text

RECURSIVE Dedupe_KeepAll(_, _)
Dedupe_KeepAll(ws, seen) ==
    IF ws = <<>> THEN <<>>
    ELSE <<Head(ws)>> \o Dedupe_KeepAll(Tail(ws), seen \cup {Head(ws)})

RECURSIVE Dedupe(_, _)
Dedupe(ws, seen) ==
    IF ws = <<>> THEN <<>>
    ELSE IF Head(ws) \in seen THEN Dedupe(Tail(ws), seen)
    ELSE <<Head(ws)>> \o Dedupe(Tail(ws), seen \cup {Head(ws)})

\* l.113-114: split, trim, drop the empty lines, keep first occurrences
ParseVocab(lines) ==
    Dedupe(SelectSeq([i \in 1..Len(lines) |-> trim(lines[i])], LAMBDA w : w # ""), {})

(***************************************************************************)
(* Handlers.  A handler's record holds its position (the await it is       *)
(* suspended at) and its locals.                                           *)
(***************************************************************************)
NoSignature == <<>>
NoResponse ==
    [status |-> "none", error |-> "", avgDelta |-> <<>>, targetEmbedding |-> <<>>,
     transformed |-> <<>>, transformedRaw |-> <<>>, neighbors |-> <<>>, points |-> <<>>,
     seedLinks |-> <<>>, explainedVariance |-> <<>>,
     meta |-> [vocabSize |-> 0, dim |-> 0, model |-> "", k |-> 0]]
\* a build or a rebuild has nothing but its outcome to report
Outcome(status, msg) == [NoResponse EXCEPT !.status = status, !.error = msg]
NoArgs ==
    [pairs |-> <<>>, target |-> "", k |-> 0, includeSeeds |-> FALSE, excludeInputs |-> FALSE]
NoMeta == [state |-> "absent", n |-> 0, dim |-> 0, normalized |-> FALSE, signature |-> NoSignature]
NoBuffer == [alias |-> FALSE, data |-> <<>>]

IdleProc ==
    [kind |-> "none", pc |-> "idle", contextTemplate |-> DefaultTemplate,
     signature |-> NoSignature, meta |-> NoMeta, texts |-> <<>>, n |-> 0, i |-> 0,
     wbuf |-> NoBuffer, metaOut |-> NoMeta, args |-> NoArgs, path |-> "",
     calls |-> 0, res |-> NoResponse,
     \* history: no other handler in flight since this one started; the provider
     \* misbehaved in this request; this request changed the cache; what
     \* topKSimilar returned to this request; what the library of makePCA did
     \* in it
     alone |-> FALSE, fault |-> FALSE, touched |-> FALSE, ranked |-> <<>>,
     reduced |-> "none"]

\* l.410: the boot sequence calls buildOrLoadEmbeddingMatrix('{w}')
BootProc ==
    [IdleProc EXCEPT !.kind = "boot", !.pc = "loadVocab_pathExists", !.alone = TRUE]

\* the handler has answered: its locals are gone, the request and the response
\* stay on record (and how far the build went)
Finished(rec, res) ==
    [IdleProc EXCEPT !.kind = rec.kind, !.pc = "done",
                     !.contextTemplate = rec.contextTemplate, !.args = rec.args,
                     !.path = rec.path, !.calls = rec.calls, !.n = rec.n, !.i = rec.i,
                     !.fault = rec.fault, !.touched = rec.touched, !.ranked = rec.ranked,
                     !.reduced = rec.reduced,
                     !.res = res]

\* the handler's catch (l.252-255, l.400-403), or the rejected top-level await
Thrown(rec, msg) ==
    Finished(rec, Outcome("error", msg))

\* buildOrLoadEmbeddingMatrix has returned: l.251, l.411, or on to l.275
Returned(rec) ==
    IF rec.kind = "search" THEN [rec EXCEPT !.pc = "search_embedMany", !.wbuf = NoBuffer]
    ELSE Finished(rec, Outcome("ok", ""))

ServerAfter_ListenAnyway(rec) ==
    IF rec.kind = "boot" /\ rec.pc = "done" THEN "listening" ELSE server

\* l.411: app.listen is reached only when the top-level await did not reject
ServerAfter(rec) ==
    IF rec.kind = "boot" /\ rec.pc = "done"
    THEN IF rec.res.status = "ok" THEN "listening" ELSE "crashed"
    ELSE server

\* a Buffer made over matrix.buffer shares its memory until `matrix` is assigned
\* a new array: from then on it holds what the old array held
Detach(rec, oldData) ==
    IF rec.wbuf.alias THEN [rec EXCEPT !.wbuf = [alias |-> FALSE, data |-> oldData]] ELSE rec

At(p, label) == proc[p].pc = label

InFlight(q) == proc[q].pc \notin {"idle", "done"}

\* the awaits of buildOrLoadEmbeddingMatrix (l.133-180)
InBuildOrLoad(q) == InFlight(q) /\ proc[q].pc # "search_embedMany"

\* the call of buildOrLoadEmbeddingMatrix that handler p is in ends when p goes
\* on as rec
LastAfter(p, rec) ==
    IF InBuildOrLoad(p) /\ rec.pc \in {"done", "search_embedMany"}
    THEN [sig |-> proc[p].signature, alone |-> proc[p].alone,
          ok |-> (rec.pc = "search_embedMany" \/ rec.res.status = "ok")]
    ELSE lastCall

\* handler p goes on as rec; `matrix` keeps its array
Step(p, rec) ==
    /\ proc' = [proc EXCEPT ![p] = rec]
    /\ server' = ServerAfter(rec)
    /\ lastCall' = LastAfter(p, rec)
    /\ UNCHANGED batchSize

\* handler p goes on as rec, having assigned a new array to `matrix`
StepNewArray(p, rec) ==
    /\ proc' = [q \in Procs |-> IF q = p THEN rec ELSE Detach(proc[q], matrix.data)]
    /\ server' = ServerAfter(rec)
    /\ lastCall' = LastAfter(p, rec)
    /\ UNCHANGED batchSize

\* a new handler starts in slot p as rec: the handlers in flight are no longer
\* alone
StepStart(p, rec) ==
    /\ proc' = [q \in Procs |->
                 IF q = p THEN [rec EXCEPT !.alone = \A o \in Procs \ {p} : ~InFlight(o)]
                 ELSE [proc[q] EXCEPT !.alone = FALSE]]
    /\ UNCHANGED <<server, lastCall, batchSize>>

RECURSIVE SetRows(_, _, _, _, _)
\* l.162-164: matrix.set(embs[j], (i + j) * dim) for j = 0..embs.length-1
SetRows(data, embs, i, d, j) ==
    IF j >= Len(embs) THEN [ok |-> TRUE, data |-> data]
    ELSE LET w == SetAt(data, embs[j + 1], (i + j) * d)
         IN  IF w.ok THEN SetRows(w.data, embs, i, d, j + 1) ELSE w

RECURSIVE NormalizeRows(_, _, _, _)
\* l.170-174
NormalizeRows(data, n, d, i) ==
    IF i >= n THEN [ok |-> TRUE, data |-> data]
    ELSE LET w == SetAt(data, normalizeVec(getRow(data, d, i)), i * d)
         IN  IF w.ok THEN NormalizeRows(w.data, n, d, i + 1) ELSE w

\* l.177-178: the two writeFile calls take their arguments when they are called
CallWriteBin(rec) == [rec EXCEPT !.pc = "writeBin", !.wbuf = [alias |-> TRUE, data |-> <<>>]]

MetaOut(rec) ==
    [state |-> "ok", n |-> Len(vocab), dim |-> dim, normalized |-> normalized,
     signature |-> rec.signature]

\* l.154-157, and on to the first await of the build
BeginBuild(p) ==
    LET fresh == [isNull |-> FALSE, data |-> Zeros(Len(vocab) * dim)]
        rec == [proc[p] EXCEPT !.texts = wordsToTexts(vocab, proc[p].contextTemplate),
                               !.n = Len(vocab), !.i = 0, !.path = "build",
                               !.touched = @ \/ fresh # matrix
                                             \/ (Len(vocab) = 0 /\ ~normalized)]
    IN  /\ matrix' = fresh
        /\ memSig' = rec.signature
        /\ mem' = [by |-> p, state |-> IF rec.n = 0 THEN "complete" ELSE "partial"]
        /\ IF rec.n = 0
           THEN /\ normalized' = TRUE
                /\ StepNewArray(p, CallWriteBin(rec))
           ELSE /\ normalized' = normalized
                /\ StepNewArray(p, [rec EXCEPT !.pc = "embedMany"])

\* l.110-111
LoadVocabExists(p) ==
    /\ At(p, "loadVocab_pathExists")
    /\ IF vocabFile.exists
       THEN /\ Step(p, [proc[p] EXCEPT !.pc = "loadVocab_readFile"])
            /\ UNCHANGED vocab
       ELSE /\ vocab' = DefaultVocab
            /\ Step(p, [proc[p] EXCEPT !.pc = "ensureEmbedder",
                                       !.touched = @ \/ vocab # DefaultVocab])
    /\ UNCHANGED <<embedder, dim, matrix, normalized, vocabFile, metaFile, binFile,
                   memSig, mem, edits, started>>

\* l.112-114
LoadVocabRead(p) ==
    /\ At(p, "loadVocab_readFile")
    /\ \/ /\ vocabFile.exists
          /\ vocab' = ParseVocab(vocabFile.lines)
          /\ Step(p, [proc[p] EXCEPT !.pc = "ensureEmbedder",
                                     !.touched = @ \/ vocab # ParseVocab(vocabFile.lines)])
       \/ /\ UNCHANGED vocab
          /\ Step(p, Thrown(proc[p], "readFile failed: vocab.txt"))
    /\ UNCHANGED <<embedder, dim, matrix, normalized, vocabFile, metaFile, binFile,
                   memSig, mem, edits, started>>

\* l.137-139, and the call of l.141
AfterEnsure(rec, d) ==
    [rec EXCEPT !.pc = "meta_pathExists",
                !.signature = hashJSON([model |-> MODEL_ID, dim |-> d, vocab |-> vocab,
                                        contextTemplate |-> rec.contextTemplate])]

\* l.62-65
EnsureEmbedder(p) ==
    /\ At(p, "ensureEmbedder")
    /\ IF embedder
       THEN /\ Step(p, AfterEnsure(proc[p], dim))
            /\ UNCHANGED embedder
       ELSE \/ /\ embedder' = TRUE
               /\ Step(p, [proc[p] EXCEPT !.pc = "ensureEmbedder_test"])
            \/ /\ UNCHANGED embedder
               /\ Step(p, Thrown(proc[p], "pipeline failed"))
    /\ UNCHANGED <<vocab, dim, matrix, normalized, vocabFile, metaFile, binFile,
                   memSig, mem, edits, started>>

\* l.67-70
EnsureEmbedderTest(p) ==
    /\ At(p, "ensureEmbedder_test")
    /\ \/ /\ dim' = ProviderDim
          /\ Step(p, AfterEnsure(proc[p], ProviderDim))
       \/ /\ UNCHANGED dim
          /\ Step(p, Thrown(proc[p], "provider threw"))
    /\ UNCHANGED <<embedder, vocab, matrix, normalized, vocabFile, metaFile, binFile,
                   memSig, mem, edits, started>>

\* l.141, left operand
MetaExists(p) ==
    /\ At(p, "meta_pathExists")
    /\ IF metaFile.state # "absent"
       THEN /\ Step(p, [proc[p] EXCEPT !.pc = "bin_pathExists"])
            /\ UNCHANGED <<matrix, normalized, memSig, mem>>
       ELSE BeginBuild(p)
    /\ UNCHANGED <<embedder, vocab, dim, vocabFile, metaFile, binFile, edits, started>>

\* l.141, right operand
BinExists(p) ==
    /\ At(p, "bin_pathExists")
    /\ IF binFile.exists
       THEN /\ Step(p, [proc[p] EXCEPT !.pc = "meta_readFile"])
            /\ UNCHANGED <<matrix, normalized, memSig, mem>>
       ELSE BeginBuild(p)
    /\ UNCHANGED <<embedder, vocab, dim, vocabFile, metaFile, binFile, edits, started>>

\* the comparison inverted
SameSignature_Inverted(meta, signature) == meta.signature # signature

\* l.143: meta.signature === signature
SameSignature(meta, signature) == meta.signature = signature

\* l.142-143
MetaRead(p) ==
    /\ At(p, "meta_readFile")
    /\ \/ /\ metaFile.state = "ok"
          /\ IF SameSignature(metaFile, proc[p].signature)
             THEN /\ Step(p, [proc[p] EXCEPT !.pc = "bin_readFile", !.meta = metaFile,
                                             !.path = "load"])
                  /\ UNCHANGED <<matrix, normalized, memSig, mem>>
             ELSE BeginBuild(p)
       \/ /\ metaFile.state = "corrupt"
          /\ Step(p, Thrown(proc[p], "SyntaxError: JSON.parse"))
          /\ UNCHANGED <<matrix, normalized, memSig, mem>>
       \/ /\ Step(p, Thrown(proc[p], "readFile failed: meta.json"))
          /\ UNCHANGED <<matrix, normalized, memSig, mem>>
    /\ UNCHANGED <<embedder, vocab, dim, vocabFile, metaFile, binFile, edits, started>>

\* l.144-150
BinRead(p) ==
    /\ At(p, "bin_readFile")
    /\ \/ /\ matrix' = [isNull |-> FALSE, data |-> binFile.data]
          /\ dim' = proc[p].meta.dim
          /\ normalized' = proc[p].meta.normalized
          /\ memSig' = proc[p].signature
          /\ mem' = [by |-> p, state |-> "complete"]
          /\ StepNewArray(p, Returned([proc[p] EXCEPT
                 !.touched = @ \/ matrix # [isNull |-> FALSE, data |-> binFile.data]
                               \/ normalized # proc[p].meta.normalized]))
       \/ /\ Step(p, Thrown(proc[p], "readFile failed: vocab_embeddings.bin"))
          /\ UNCHANGED <<matrix, dim, normalized, memSig, mem>>
    /\ UNCHANGED <<embedder, vocab, vocabFile, metaFile, binFile, edits, started>>

\* the pipeline's answer is one vector per text, as items or as one tensor
WellFormed(out, texts) == out \in {OutPerItem(texts), OutTensor(texts)}

\* the rows of `matrix` after handler p has written into it: its owner gets on,
\* or fails
MemAfter(p, outcome) ==
    IF mem.by = p /\ mem.state = "partial" THEN [mem EXCEPT !.state = outcome] ELSE mem

\* l.159-175, one turn of the loop: the await of l.161 and what follows it up
\* to the next await
EmbedBatch(p) ==
    /\ At(p, "embedMany")
    /\ \E out \in ProviderOutputs(SubSeq(proc[p].texts, proc[p].i + 1,
                                         Min(proc[p].i + batchSize, proc[p].n))) :
        LET texts == SubSeq(proc[p].texts, proc[p].i + 1,
                            Min(proc[p].i + batchSize, proc[p].n))
            r == embedMany(out, dim)
            w == SetRows(matrix.data, r.vecs, proc[p].i, dim, 0)
            nr == NormalizeRows(w.data, proc[p].n, dim, 0)
            data == IF r.err # "" THEN matrix.data
                    ELSE IF ~w.ok \/ proc[p].i + batchSize < proc[p].n THEN w.data
                    ELSE nr.data
            rec == [proc[p] EXCEPT !.calls = (@ + 1) % CallsModulus,
                                   !.fault = @ \/ ~WellFormed(out, texts),
                                   !.touched = @ \/ data # matrix.data
                                                 \/ (r.err = "" /\ w.ok /\ nr.ok
                                                     /\ proc[p].i + batchSize >= proc[p].n
                                                     /\ ~normalized)]
        IN  /\ matrix' = [matrix EXCEPT !.data = data]
            /\ IF r.err # ""
               THEN /\ Step(p, Thrown(rec, r.err))
                    /\ mem' = MemAfter(p, "failed")
                    /\ UNCHANGED normalized
               ELSE IF ~w.ok
               THEN /\ Step(p, Thrown(rec, "RangeError: offset is out of bounds"))
                    /\ mem' = MemAfter(p, "failed")
                    /\ UNCHANGED normalized
               ELSE IF rec.i + batchSize < rec.n
               THEN /\ Step(p, [rec EXCEPT !.i = @ + batchSize])
                    /\ UNCHANGED <<normalized, mem>>
               ELSE IF ~nr.ok
               THEN /\ Step(p, Thrown(rec, "RangeError: offset is out of bounds"))
                    /\ mem' = MemAfter(p, "failed")
                    /\ UNCHANGED normalized
               ELSE /\ normalized' = TRUE
                    /\ mem' = MemAfter(p, "complete")
                    /\ Step(p, CallWriteBin([rec EXCEPT !.i = @ + batchSize]))
    /\ UNCHANGED <<embedder, vocab, dim, vocabFile, metaFile, binFile, memSig, edits, started>>

\* l.177: the write of the blob, and the call of l.178
WriteBin(p) ==
    /\ At(p, "writeBin")
    /\ \/ LET bytes == IF proc[p].wbuf.alias THEN matrix.data ELSE proc[p].wbuf.data
          IN  /\ binFile' = [exists |-> TRUE, data |-> bytes, sig |-> proc[p].signature]
              /\ Step(p, [proc[p] EXCEPT !.pc = "writeMeta", !.wbuf = NoBuffer,
                                         !.metaOut = MetaOut(proc[p]),
                                         !.touched = @ \/ ~binFile.exists
                                                       \/ binFile.data # bytes])
       \/ /\ UNCHANGED binFile
          /\ Step(p, Thrown(proc[p], "writeFile failed: vocab_embeddings.bin"))
    /\ UNCHANGED <<embedder, vocab, dim, matrix, normalized, vocabFile, metaFile,
                   memSig, mem, edits, started>>

\* l.178-180
WriteMeta(p) ==
    /\ At(p, "writeMeta")
    /\ \/ /\ metaFile' = proc[p].metaOut
          /\ Step(p, Returned([proc[p] EXCEPT !.touched = @ \/ metaFile # proc[p].metaOut]))
       \/ /\ UNCHANGED metaFile
          /\ Step(p, Thrown(proc[p], "writeFile failed: meta.json"))
    /\ UNCHANGED <<embedder, vocab, dim, matrix, normalized, vocabFile, binFile,
                   memSig, mem, edits, started>>

(***************************************************************************)
(* Neighbor search.                                                        *)
(***************************************************************************)
\* a JSON value of a request body
Str(w) == [type |-> "string", val |-> w]
Num(x) == [type |-> "number", val |-> x]

RECURSIVE InsertByScore_Ascending(_, _, _, _)
InsertByScore_Ascending(sorted, sims, i, pos) ==
    IF pos > Len(sorted) THEN Append(sorted, i)
    ELSE IF sims[sorted[pos] + 1] > sims[i + 1]
    THEN SubSeq(sorted, 1, pos - 1) \o <<i>> \o SubSeq(sorted, pos, Len(sorted))
    ELSE InsertByScore_Ascending(sorted, sims, i, pos + 1)

RECURSIVE InsertByScore(_, _, _, _)
\* the place of index i in `sorted` under the comparator of l.190, i later
\* than its equals
InsertByScore(sorted, sims, i, pos) ==
    IF pos > Len(sorted) THEN Append(sorted, i)
    ELSE IF sims[sorted[pos] + 1] < sims[i + 1]
    THEN SubSeq(sorted, 1, pos - 1) \o <<i>> \o SubSeq(sorted, pos, Len(sorted))
    ELSE InsertByScore(sorted, sims, i, pos + 1)

RECURSIVE SortFrom_Backwards(_, _, _)
SortFrom_Backwards(sorted, sims, i) ==
    IF i >= Len(sims) THEN sorted
    ELSE SortFrom_Backwards(InsertByScore(sorted, sims, Len(sims) - 1 - i, 1), sims, i + 1)

RECURSIVE SortFrom(_, _, _)
SortFrom(sorted, sims, i) ==
    IF i >= Len(sims) THEN sorted
    ELSE SortFrom(InsertByScore(sorted, sims, i, 1), sims, i + 1)

SortedIndices_RowOrder(sims) == [i \in 1..Len(sims) |-> i - 1]

\* l.189-190: [...sims.keys()] sorted by descending score; Array.prototype.sort
\* is stable
SortedIndices(sims) == SortFrom(<<>>, sims, 0)

RECURSIVE Collect_KeepExcluded(_, _, _, _, _, _)
Collect_KeepExcluded(idxs, pos, res, sims, k, exclude) ==
    IF pos > Len(idxs) THEN res
    ELSE LET i == idxs[pos]
             w == vocab[i + 1]
             pushed == Append(res, [word |-> w, score |-> sims[i + 1], index |-> i])
         IN  IF Len(pushed) >= k THEN pushed
             ELSE Collect_KeepExcluded(idxs, pos + 1, pushed, sims, k, exclude)

RECURSIVE Collect(_, _, _, _, _, _)
\* l.192-199
Collect(idxs, pos, res, sims, k, exclude) ==
    IF pos > Len(idxs) THEN res
    ELSE LET i == idxs[pos]
             w == vocab[i + 1]
             pushed == Append(res, [word |-> w, score |-> sims[i + 1], index |-> i])
         IN  IF Str(w) \in exclude THEN Collect(idxs, pos + 1, res, sims, k, exclude)
             ELSE IF Len(pushed) >= k THEN pushed
             ELSE Collect(idxs, pos + 1, pushed, sims, k, exclude)

\* l.182-200, with the globals it reads
topKSimilar(targetVec, k, exclude) ==
    LET q == IF normalized THEN normalizeVec(targetVec) ELSE targetVec
        sims == [i \in 1..Len(vocab) |-> dot(getRow(matrix.data, dim, i - 1), q)]
    IN  Collect(SortedIndices(sims), 1, <<>>, sims, k, exclude)

(***************************************************************************)
(* POST /api/search, l.259-404.                                            *)
(***************************************************************************)
\* l.278-282: the pairs whose two members are strings
ValidPairs(pairs) ==
    SelectSeq(pairs, LAMBDA pr : pr[1].type = "string" /\ pr[2].type = "string")

RECURSIVE FlatPairWords(_)
FlatPairWords(valid) ==
    IF valid = <<>> THEN <<>>
    ELSE <<Head(valid)[1].val, Head(valid)[2].val>> \o FlatPairWords(Tail(valid))

\* l.276-283
FlatWords(args) == Append(FlatPairWords(ValidPairs(args.pairs)), args.target)

Delta_Reversed(embs, i, d) == [j \in 1..d |-> embs[2 * i - 1][j] - embs[2 * i][j]]

\* l.291-297: delta i (from 1) is embs[2i+1] - embs[2i] of the code's indices
Delta(embs, i, d) == [j \in 1..d |-> embs[2 * i][j] - embs[2 * i - 1][j]]

RECURSIVE SumDeltas(_, _, _)
SumDeltas(embs, m, d) ==
    IF m = 0 THEN Zeros(d)
    ELSE LET rest == SumDeltas(embs, m - 1, d)
             last == Delta(embs, m, d)
         IN  [j \in 1..d |-> rest[j] + last[j]]

\* l.299-301
AvgDelta(embs, m, d) ==
    LET sum == SumDeltas(embs, m, d)
    IN  [j \in 1..d |-> IF m > 0 THEN RoundDiv(sum[j], m) ELSE sum[j]]

\* l.304-305
Transformed(embs, m, d) ==
    LET targetEmb == embs[Len(embs)]
        avgDelta == AvgDelta(embs, m, d)
    IN  [j \in 1..d |-> targetEmb[j] + avgDelta[j]]

\* l.308
Translated(embs, m, d) ==
    IF normalized THEN normalizeVec(Transformed(embs, m, d)) ELSE Transformed(embs, m, d)

ExcludeSet_NoTarget(args) ==
    IF args.excludeInputs
    THEN {args.pairs[i][1] : i \in 1..Len(args.pairs)}
         \cup {args.pairs[i][2] : i \in 1..Len(args.pairs)}
    ELSE {}

\* l.311: new Set(excludeInputs ? [...pairs.flat(), target] : [])
ExcludeSet(args) ==
    IF args.excludeInputs
    THEN {args.pairs[i][1] : i \in 1..Len(args.pairs)}
         \cup {args.pairs[i][2] : i \in 1..Len(args.pairs)} \cup {Str(args.target)}
    ELSE {}

\* l.289-305 read embs[2i], embs[2i+1] and the last of embs: a TypeError when one
\* of them is undefined
EmbsMissing(embs, m) == Len(embs) = 0 \/ 2 * m > Len(embs)

\* l.381
NeighborsOut(neighbors) ==
    [i \in 1..Len(neighbors) |-> [word |-> neighbors[i].word, score |-> neighbors[i].score]]

\* the template literals of l.321, l.339-340 and l.344, as the fixed part and
\* the value put into it
NeighborId(w) == <<"neighbor:", w>>
SeedId(w) == <<"seed:", w>>
PairId(i) == <<"pair:", ToString(i)>>

\* l.319-326
NeighborPoints(neighbors) ==
    [i \in 1..Len(neighbors) |->
        [id |-> NeighborId(neighbors[i].word), label |-> <<neighbors[i].word>>,
         kind |-> "neighbor", vec |-> getRow(matrix.data, dim, neighbors[i].index)]]

\* l.329-330
TargetPoints(target, targetEmb, translated) ==
    << [id |-> <<"target">>, label |-> <<target>>, kind |-> "target", vec |-> targetEmb],
       [id |-> <<"predicted">>, label |-> <<target, "*">>, kind |-> "predicted",
        vec |-> translated] >>

RECURSIVE SeedPoints(_, _, _)
\* l.333-342: the two points of the valid pairs from the i-th on (i from 0)
SeedPoints(valid, embs, i) ==
    IF i >= Len(valid) THEN <<>>
    ELSE << [id |-> SeedId(valid[i + 1][1].val), label |-> <<valid[i + 1][1].val>>,
             kind |-> "seedFrom", vec |-> embs[2 * i + 1]],
            [id |-> SeedId(valid[i + 1][2].val), label |-> <<valid[i + 1][2].val>>,
             kind |-> "seedTo", vec |-> embs[2 * i + 2]] >>
         \o SeedPoints(valid, embs, i + 1)

\* l.343-349
SeedLinks(valid) ==
    [i \in 1..Len(valid) |->
        [id |-> PairId(i - 1),
         fromId |-> SeedId(valid[i][1].val), toId |-> SeedId(valid[i][2].val),
         fromLabel |-> <<valid[i][1].val>>, toLabel |-> <<valid[i][2].val>>]]

PPoints_SeedsAlways(args, neighbors, embs, translated) ==
    NeighborPoints(neighbors)
    \o TargetPoints(args.target, embs[Len(embs)], translated)
    \o SeedPoints(ValidPairs(args.pairs), embs, 0)

\* l.315-351: pPoints
PPoints(args, neighbors, embs, translated) ==
    NeighborPoints(neighbors)
    \o TargetPoints(args.target, embs[Len(embs)], translated)
    \o (IF args.includeSeeds THEN SeedPoints(ValidPairs(args.pairs), embs, 0) ELSE <<>>)

RECURSIVE SumSeq(_)
SumSeq(xs) == IF xs = <<>> THEN 0 ELSE Head(xs) + SumSeq(Tail(xs))

\* the PCA of ml-pca either returns or throws
PcaOutcomes == {"ok", "throw"}

\* what the library does with X is stood for by its centering (center: true,
\* scale: false): column c of Y is column c of X less its mean, the axes are
\* not turned
Centered(points, c) ==
    LET col == [i \in 1..Len(points) |-> points[i].vec[c]]
        mean == RoundDiv(SumSeq(col), Len(points))
    IN  [i \in 1..Len(points) |-> col[i] - mean]

\* getExplainedVariance: the share of column c in the variance, in 1/Unit
ExplainedVarianceOf(points, nDims, c) ==
    LET total == SumSeq([j \in 1..nDims |-> SumSq(Centered(points, j))])
    IN  IF total = 0 THEN 0 ELSE RoundDiv(Unit * SumSq(Centered(points, c)), total)

\* l.202-222; lib is what the library does in l.211-213.  `Y[i][c] || 0` is 0
\* for a column the projection does not have.
makePCA(points, lib) ==
    IF points = <<>> THEN [err |-> "", points |-> <<>>, explainedVariance |-> <<>>]
    ELSE IF lib = "throw"
    THEN [err |-> "Error: PCA", points |-> <<>>, explainedVariance |-> <<>>]
    ELSE LET nDims == Len(points[1].vec)
             components == Max(1, Min(3, nDims))
             coord(i, c) == IF c <= Min(components, nDims) THEN Centered(points, c)[i] ELSE 0
         IN  [err |-> "",
              points |-> [i \in 1..Len(points) |->
                            [id |-> points[i].id, label |-> points[i].label,
                             kind |-> points[i].kind, vec |-> points[i].vec,
                             x |-> coord(i, 1), y |-> coord(i, 2), z |-> coord(i, 3)]],
              explainedVariance |->
                  [c \in 1..components |->
                      IF c <= nDims THEN ExplainedVarianceOf(points, nDims, c) ELSE 0]]

\* a JSON null, and a number, where the response has one or the other
Null == [isNull |-> TRUE, val |-> 0]
NotNull(v) == [isNull |-> FALSE, val |-> v]

\* l.355: new Map(points.map(p => [p.id, p])): the last point of an id
PointAt(points, id) ==
    LET at == {i \in 1..Len(points) : points[i].id = id}
    IN  IF at = {} THEN 0 ELSE CHOOSE i \in at : \A j \in at : j <= i

\* l.362-371
LinkEnd(points, id) ==
    IF PointAt(points, id) = 0 THEN Null
    ELSE NotNull([x |-> points[PointAt(points, id)].x, y |-> points[PointAt(points, id)].y,
                  z |-> points[PointAt(points, id)].z])

\* l.356-372
EnrichedSeedLinks(seedLinks, points) ==
    [i \in 1..Len(seedLinks) |->
        [id |-> seedLinks[i].id, fromId |-> seedLinks[i].fromId, toId |-> seedLinks[i].toId,
         fromLabel |-> seedLinks[i].fromLabel, toLabel |-> seedLinks[i].toLabel,
         from |-> LinkEnd(points, seedLinks[i].fromId),
         to |-> LinkEnd(points, seedLinks[i].toId)]]

\* l.374 and l.389: neighborScoreMap.get(p.id) || null, null for the score 0 too
ScoreOf(neighbors, id) ==
    LET at == {i \in 1..Len(neighbors) : NeighborId(neighbors[i].word) = id}
    IN  IF at = {} THEN Null
        ELSE LET score == neighbors[CHOOSE i \in at : \A j \in at : j <= i].score
             IN  IF score = 0 THEN Null ELSE NotNull(score)

\* l.382-390
PointsOut(points, neighbors) ==
    [i \in 1..Len(points) |->
        [id |-> points[i].id, label |-> points[i].label, kind |-> points[i].kind,
         x |-> points[i].x, y |-> points[i].y, z |-> points[i].z,
         score |-> ScoreOf(neighbors, points[i].id)]]

\* l.285-399 from the embeddings on: the response to args when the provider
\* has answered embs and the library of makePCA does lib
Response(args, embs, lib) ==
    LET m == Len(ValidPairs(args.pairs))
        translated == Translated(embs, m, dim)
        neighbors == topKSimilar(translated, args.k, ExcludeSet(args))
        pca == makePCA(PPoints(args, neighbors, embs, translated), lib)
        seedLinks == IF args.includeSeeds THEN SeedLinks(ValidPairs(args.pairs)) ELSE <<>>
    IN  IF pca.err # "" THEN Outcome("error", pca.err)
        ELSE [status |-> "ok", error |-> "",
              avgDelta |-> AvgDelta(embs, m, dim),
              targetEmbedding |-> embs[Len(embs)],
              transformed |-> translated,
              transformedRaw |-> Transformed(embs, m, dim),
              neighbors |-> NeighborsOut(neighbors),
              points |-> PointsOut(pca.points, neighbors),
              seedLinks |-> EnrichedSeedLinks(seedLinks, pca.points),
              explainedVariance |-> pca.explainedVariance,
              meta |-> [vocabSize |-> Len(vocab), dim |-> dim, model |-> MODEL_ID,
                        k |-> args.k]]

\* express hands a request to a new invocation of its handler: slot p is the
\* first one not holding a suspended handler
Free(p) ==
    /\ server = "listening"
    /\ started < MaxRequests
    /\ proc[p].pc \in {"idle", "done"}
    /\ \A q \in Handlers : q < p => proc[q].pc \notin {"idle", "done"}

StartSearch_DropsFlag(p, a, t) ==
    /\ Free(p)
    /\ started' = started + 1
    /\ StepStart(p, [IdleProc EXCEPT !.kind = "search", !.args = a, !.contextTemplate = t,
                                     !.pc = IF matrix.isNull THEN "loadVocab_pathExists"
                                            ELSE "search_embedMany"])
    /\ normalized' = FALSE
    /\ UNCHANGED <<embedder, vocab, dim, matrix, vocabFile, metaFile, binFile,
                   memSig, mem, edits>>

\* l.259-273: the request arrives; the build is awaited only when matrix is null
StartSearch(p, a, t) ==
    /\ Free(p)
    /\ started' = started + 1
    /\ StepStart(p, [IdleProc EXCEPT !.kind = "search", !.args = a, !.contextTemplate = t,
                                     !.pc = IF matrix.isNull THEN "loadVocab_pathExists"
                                            ELSE "search_embedMany"])
    /\ UNCHANGED <<embedder, vocab, dim, matrix, normalized, vocabFile, metaFile, binFile,
                   memSig, mem, edits>>

\* l.285-399: the await of l.286 and the rest of the handler
SearchEmbed(p) ==
    /\ At(p, "search_embedMany")
    /\ \E out \in ProviderOutputs(wordsToTexts(FlatWords(proc[p].args),
                                               proc[p].contextTemplate)),
          lib \in PcaOutcomes :
        LET rec == [proc[p] EXCEPT
                       !.calls = @ + 1,
                       !.fault = @ \/ ~WellFormed(out, wordsToTexts(FlatWords(proc[p].args),
                                                                   proc[p].contextTemplate))]
            r == embedMany(out, dim)
            m == Len(ValidPairs(rec.args.pairs))
            neighbors == topKSimilar(Translated(r.vecs, m, dim), rec.args.k,
                                     ExcludeSet(rec.args))
        IN  IF r.err # "" THEN Step(p, Thrown(rec, r.err))
            ELSE IF EmbsMissing(r.vecs, m)
            THEN Step(p, Thrown(rec, "TypeError: Cannot read properties of undefined"))
            ELSE Step(p, Finished([rec EXCEPT !.ranked = neighbors, !.reduced = lib],
                                  Response(rec.args, r.vecs, lib)))
    /\ UNCHANGED <<embedder, vocab, dim, matrix, normalized, vocabFile, metaFile, binFile,
                   memSig, mem, edits, started>>

(***************************************************************************)
(* POST /api/rebuild, l.247-256.                                           *)
(***************************************************************************)
StartRebuild(p, t) ==
    /\ Free(p)
    /\ started' = started + 1
    /\ StepStart(p, [IdleProc EXCEPT !.kind = "rebuild", !.contextTemplate = t,
                                     !.pc = "loadVocab_pathExists"])
    /\ UNCHANGED <<embedder, vocab, dim, matrix, normalized, vocabFile, metaFile, binFile,
                   memSig, mem, edits>>

(***************************************************************************)
(* The files change from outside the process.                              *)
(***************************************************************************)
\* vocab.txt is replaced by another list
EditVocabFile ==
    /\ edits < MaxEdits
    /\ edits' = edits + 1
    /\ vocabFile' \in VocabFiles \ {vocabFile}
    /\ UNCHANGED <<embedder, vocab, dim, matrix, normalized, metaFile, binFile, server,
                   proc, memSig, mem, lastCall, started, batchSize>>

\* meta.json is damaged: it no longer parses
CorruptMeta ==
    /\ edits < MaxEdits
    /\ metaFile.state = "ok"
    /\ edits' = edits + 1
    /\ metaFile' = [metaFile EXCEPT !.state = "corrupt"]
    /\ UNCHANGED <<embedder, vocab, dim, matrix, normalized, vocabFile, binFile, server,
                   proc, memSig, mem, lastCall, started, batchSize>>

(***************************************************************************)
(* The requests of the model.                                              *)
(***************************************************************************)
SeedPair == <<Str("garden"), Str("gardening")>>
BadPair == <<Num("7"), Str("work")>>
PairLists == {<<SeedPair, BadPair>>}
Ks == {2}
SearchArgs ==
    [pairs : PairLists, target : {"work"}, k : Ks, includeSeeds : {TRUE},
     excludeInputs : {TRUE}]

Init ==
    /\ embedder = FALSE
    /\ vocab = <<>>
    /\ dim = 0
    /\ matrix = [isNull |-> TRUE, data |-> <<>>]
    /\ normalized = FALSE
    /\ vocabFile = VocabFileA
    /\ metaFile = NoMeta
    /\ binFile = [exists |-> FALSE, data |-> <<>>, sig |-> NoSignature]
    /\ server = "booting"
    /\ proc = [p \in Procs |-> IF p = 0 THEN BootProc ELSE IdleProc]
    /\ memSig = NoSignature
    /\ mem = [by |-> 0, state |-> "none"]
    /\ lastCall = [sig |-> NoSignature, alone |-> FALSE, ok |-> FALSE]
    /\ edits = 0
    /\ started = 0
    /\ batchSize = BATCH_SIZE

Next ==
    \/ \E p \in Procs : LoadVocabExists(p)
    \/ \E p \in Procs : LoadVocabRead(p)
    \/ \E p \in Procs : EnsureEmbedder(p)
    \/ \E p \in Procs : EnsureEmbedderTest(p)
    \/ \E p \in Procs : MetaExists(p)
    \/ \E p \in Procs : BinExists(p)
    \/ \E p \in Procs : MetaRead(p)
    \/ \E p \in Procs : BinRead(p)
    \/ \E p \in Procs : EmbedBatch(p)
    \/ \E p \in Procs : WriteBin(p)
    \/ \E p \in Procs : WriteMeta(p)
    \/ \E p \in Handlers, t \in Templates : StartRebuild(p, t)
    \/ \E p \in Handlers, a \in SearchArgs, t \in Templates : StartSearch(p, a, t)
    \/ \E p \in Procs : SearchEmbed(p)
    \/ EditVocabFile
    \/ CorruptMeta

Spec == Init /\ [][Next]_vars

(***************************************************************************)
(* One search against a server that has booted: the cache built for the    *)
(* default template from the vocabulary file, no other handler in flight.  *)
(***************************************************************************)
\* l.155-174 with a provider that answers one vector per text
BuiltMatrix(words, template) ==
    Concat([i \in 1..Len(words) |-> normalizeVec(Emb(wordsToTexts(words, template)[i]))])

SignatureOf(words, template) ==
    hashJSON([model |-> MODEL_ID, dim |-> ProviderDim, vocab |-> words,
              contextTemplate |-> template])

\* the number of turns of the loop of l.159 over n texts
Batches(n) == (n + BATCH_SIZE - 1) \div BATCH_SIZE

Booted(words) ==
    Finished([BootProc EXCEPT !.path = "build", !.calls = Batches(Len(words)),
                              !.touched = TRUE,
                              !.n = Len(words), !.i = Batches(Len(words)) * BATCH_SIZE],
             Outcome("ok", ""))

SecondPair == <<Str("work"), Str("working")>>
AllTemplates == {DefaultTemplate, ContextTemplate, PlainTemplate}
AllSearchArgs ==
    [pairs : {<<>>, <<SeedPair>>, <<SeedPair, BadPair>>, <<SeedPair, SecondPair>>},
     target : {"work", "garden"}, k : (-1..MaxK) \cup {DEFAULT_K},
     includeSeeds : BOOLEAN, excludeInputs : BOOLEAN]

SearchInit ==
    \E f \in VocabFiles, a \in AllSearchArgs, t \in AllTemplates :
        LET words == ParseVocab(f.lines)
            sig == SignatureOf(words, DefaultTemplate)
            built == BuiltMatrix(words, DefaultTemplate)
        IN  /\ embedder = TRUE
            /\ vocab = words
            /\ dim = ProviderDim
            /\ matrix = [isNull |-> FALSE, data |-> built]
            /\ normalized = TRUE
            /\ vocabFile = f
            /\ metaFile = [state |-> "ok", n |-> Len(words), dim |-> ProviderDim,
                           normalized |-> TRUE, signature |-> sig]
            /\ binFile = [exists |-> TRUE, data |-> built, sig |-> sig]
            /\ server = "listening"
            /\ proc = [p \in Procs |->
                        IF p = 0 THEN Booted(words)
                        ELSE IF p = 1
                        THEN [IdleProc EXCEPT !.kind = "search", !.args = a,
                                              !.contextTemplate = t, !.alone = TRUE,
                                              !.pc = "search_embedMany"]
                        ELSE IdleProc]
            /\ started = 1
            /\ memSig = sig
            /\ mem = [by |-> 0, state |-> "complete"]
            /\ lastCall = [sig |-> sig, alone |-> TRUE, ok |-> TRUE]
            /\ edits = 0
            /\ batchSize = BATCH_SIZE

SearchNext == \E p \in Handlers : SearchEmbed(p)

SearchSpec == SearchInit /\ [][SearchNext]_vars

(***************************************************************************)
(* loadVocab alone, as the boot sequence calls it, over every small        *)
(* vocabulary file and over no file.                                       *)
(***************************************************************************)
\* the most lines of a vocabulary file
MaxLines == 3

\* lines with and without white space around them, empty ones, repeated words
SomeLines ==
    {Line("garden"), Padded("garden"), Line("work"), Padded("work"), Line(""), Padded("")}

SmallVocabFiles ==
    {NoVocabFile} \cup
    {[exists |-> TRUE, lines |-> ls] :
        ls \in UNION {[1..n -> SomeLines] : n \in 0..MaxLines}}

LoadVocabInit ==
    /\ embedder = FALSE
    /\ vocab = <<>>
    /\ dim = 0
    /\ matrix = [isNull |-> TRUE, data |-> <<>>]
    /\ normalized = FALSE
    /\ vocabFile \in SmallVocabFiles
    /\ metaFile = NoMeta
    /\ binFile = [exists |-> FALSE, data |-> <<>>, sig |-> NoSignature]
    /\ server = "booting"
    /\ proc = [p \in Procs |-> IF p = 0 THEN BootProc ELSE IdleProc]
    /\ memSig = NoSignature
    /\ mem = [by |-> 0, state |-> "none"]
    /\ lastCall = [sig |-> NoSignature, alone |-> FALSE, ok |-> FALSE]
    /\ edits = 0
    /\ started = 0
    /\ batchSize = BATCH_SIZE

LoadVocabNext == LoadVocabExists(0) \/ LoadVocabRead(0)

LoadVocabSpec == LoadVocabInit /\ [][LoadVocabNext]_vars

(***************************************************************************)
(* The boot sequence alone, for every configured batch size, every await   *)
(* returning in the end.                                                   *)
(***************************************************************************)
\* l.20: the values BATCH_SIZE is configured with
BatchSizes == 0..(BATCH_SIZE + 1)

BuildInit ==
    /\ embedder = FALSE
    /\ vocab = <<>>
    /\ dim = 0
    /\ matrix = [isNull |-> TRUE, data |-> <<>>]
    /\ normalized = FALSE
    /\ vocabFile \in VocabFiles
    /\ metaFile = NoMeta
    /\ binFile = [exists |-> FALSE, data |-> <<>>, sig |-> NoSignature]
    /\ server = "booting"
    /\ proc = [p \in Procs |-> IF p = 0 THEN BootProc ELSE IdleProc]
    /\ memSig = NoSignature
    /\ mem = [by |-> 0, state |-> "none"]
    /\ lastCall = [sig |-> NoSignature, alone |-> FALSE, ok |-> FALSE]
    /\ edits = 0
    /\ started = 0
    /\ batchSize \in BatchSizes

BuildNext ==
    \/ LoadVocabExists(0)
    \/ LoadVocabRead(0)
    \/ EnsureEmbedder(0)
    \/ EnsureEmbedderTest(0)
    \/ MetaExists(0)
    \/ EmbedBatch(0)
    \/ WriteBin(0)
    \/ WriteMeta(0)

\* every await of the boot sequence returns in the end: weak fairness of each
\* of its steps.  That of EmbedBatch(0), which can be taken exactly when the
\* boot sequence is at the await of l.161, is written out.
BuildSpec ==
    /\ BuildInit
    /\ [][BuildNext]_vars
    /\ WF_vars(LoadVocabExists(0))
    /\ WF_vars(LoadVocabRead(0))
    /\ WF_vars(EnsureEmbedder(0))
    /\ WF_vars(EnsureEmbedderTest(0))
    /\ WF_vars(MetaExists(0))
    /\ ([]<>(~At(0, "embedMany")) \/ []<><<EmbedBatch(0)>>_vars)
    /\ WF_vars(WriteBin(0))
    /\ WF_vars(WriteMeta(0))

\* a handler whose search has been answered with neighbors
Answered(p) == proc[p].kind = "search" /\ proc[p].pc = "done" /\ proc[p].res.status = "ok"

(***************************************************************************)
(* Claims.                                                                 *)
(***************************************************************************)
\* C1: topKSimilar returns at most k results for every query, k and exclusion
\* set, and the empty list for every k <= 0.
C1_AtMostK ==
    \A p \in Handlers :
        Answered(p) =>
            /\ Len(proc[p].res.neighbors) <= Max(proc[p].args.k, 0)
            /\ proc[p].args.k <= 0 => proc[p].res.neighbors = <<>>

\* handler p's search is answered with neighbors in this step: l.312 ranks
\* against `matrix` as it is now
Ranks(p) ==
    /\ At(p, "search_embedMany")
    /\ proc'[p].pc = "done"
    /\ proc'[p].res.status = "ok"

\* C2: a search that interleaves with a rebuild never ranks against a matrix
\* whose rows the rebuild has not all populated and normalized yet.
C2_NoTornRead ==
    [][\A p \in Handlers :
          Ranks(p) => ~(mem.state = "partial" /\ At(mem.by, "embedMany"))]_vars

\* the signature of the cache for template t over the vocabulary in memory
SignatureFor(t) ==
    hashJSON([model |-> MODEL_ID, dim |-> dim, vocab |-> vocab, contextTemplate |-> t])

\* C3: when a search ranks its neighbors, the matrix in memory is the one of
\* the cache for the template of the request.
C3_SearchEnsuresTemplate ==
    [][\A p \in Handlers :
          Ranks(p) => memSig = SignatureFor(proc[p].contextTemplate)]_vars

\* C4: a request during which the provider threw or answered malformed or
\* wrong-count output has failed, and has changed nothing of the cache.
C4_ProviderErrorLeavesCache ==
    \A p \in Handlers :
        (proc[p].pc = "done" /\ proc[p].fault) =>
            /\ proc[p].res.status = "error"
            /\ ~proc[p].touched

\* C5: the request whose rebuild fails partway is answered with an error, and
\* no later search ranks against the rows the failed rebuild left behind.
C5_NoSearchOnFailedRebuild ==
    [][\A p \in Handlers :
          /\ (mem.state # "failed" /\ mem'.state = "failed" /\ mem.by = p)
                 => proc'[p].res.status = "error"
          /\ Ranks(p) => mem.state # "failed"]_vars

\* C6: whenever meta.json and vocab_embeddings.bin both exist, the blob is the
\* one that was written under the signature meta.json carries.
C6_BlobMatchesMeta ==
    (metaFile.state = "ok" /\ binFile.exists) => binFile.sig = metaFile.signature

\* handler p takes a step: it leaves its await, or comes back to the same one
\* with one more call made
Steps(p) == proc'[p].pc # proc[p].pc \/ proc'[p].calls # proc[p].calls

\* the call of handler p follows, with nothing else in flight, a call that
\* ended well under the same signature and had nothing else in flight either
SecondInARow(p) ==
    /\ InBuildOrLoad(p)
    /\ proc[p].alone
    /\ proc[p].signature # NoSignature
    /\ lastCall = [sig |-> proc[p].signature, alone |-> TRUE, ok |-> TRUE]

\* C7: when meta.json carries the signature of the call, the call does not
\* build: it loads the blob as the matrix with the dimension and flag of
\* meta.json and makes no embedding call; a second call in a row under the same
\* signature does not build and ends with the matrix the first one left.
C7_LoadOnSignatureMatch ==
    [][\A p \in Procs :
          /\ (At(p, "meta_readFile") /\ Steps(p) /\ metaFile.state = "ok"
                /\ metaFile.signature = proc[p].signature)
                 => /\ proc'[p].path # "build"
                    /\ proc'[p].calls = 0
                    /\ matrix' = matrix
          /\ (At(p, "bin_readFile") /\ Steps(p) /\ proc'[p].res.status # "error")
                 => /\ matrix' = [isNull |-> FALSE, data |-> binFile.data]
                    /\ dim' = proc[p].meta.dim
                    /\ normalized' = proc[p].meta.normalized
                    /\ proc'[p].calls = 0
          /\ (SecondInARow(p) /\ Steps(p))
                 => /\ proc'[p].path # "build"
                    /\ proc'[p].calls = 0
                    /\ matrix'.data = matrix.data]_vars

\* a rebuild that found the signature of meta.json equal to its own, loaded the
\* blob and answered, after a call that had ended well
C7_Loaded ==
    \E p \in Handlers :
        /\ proc[p].kind = "rebuild"
        /\ proc[p].pc = "done"
        /\ proc[p].res.status = "ok"
        /\ proc[p].path = "load"
        /\ proc[p].calls = 0
        /\ lastCall.ok /\ lastCall.alone
        /\ matrix.data = binFile.data
        /\ metaFile.signature = memSig

\* meta.json carries the signature of the vocabulary in memory under another
\* template than the one of handler p
OtherTemplateCached(p) ==
    /\ metaFile.state = "ok"
    /\ \E t \in AllTemplates \ {proc[p].contextTemplate} :
          metaFile.signature = SignatureFor(t)

\* C8: a call whose template differs from the one of the persisted cache has a
\* signature different from the one of meta.json and builds: the matrix becomes
\* a fresh array with no row of the previous one, every text of the vocabulary
\* under the new template is handed to the provider; and when nothing else is
\* in flight and every batch is answered with one vector per text, the rows
\* are these vectors, normalized.
C8_TemplateChangeRebuilds ==
    [][\A p \in Procs :
          /\ (At(p, "meta_readFile") /\ Steps(p) /\ OtherTemplateCached(p))
                 => /\ proc[p].signature # metaFile.signature
                    /\ \/ proc'[p].res.error = "readFile failed: meta.json"
                       \/ /\ proc'[p].path = "build"
                          /\ proc'[p].pc = "embedMany"
                          /\ proc'[p].calls = 0 /\ proc'[p].i = 0
                          /\ proc'[p].texts = wordsToTexts(vocab, proc[p].contextTemplate)
                          /\ matrix'.data = Zeros(Len(vocab) * dim)
          /\ (At(p, "embedMany") /\ proc'[p].pc = "writeBin")
                 => /\ proc'[p].calls = Batches(proc[p].n)
                    /\ proc'[p].i >= proc[p].n
                    /\ (proc[p].alone /\ ~proc'[p].fault)
                          => matrix'.data =
                               Concat([i \in 1..proc[p].n |->
                                          normalizeVec(Emb(proc[p].texts[i]))])]_vars

\* a rebuild under "I saw {w}" after a boot under "{w}" has embedded every row
\* anew and saved the cache under the new signature
C8_Rebuilt ==
    \E p \in Handlers :
        /\ proc[p].kind = "rebuild"
        /\ proc[p].pc = "done"
        /\ proc[p].res.status = "ok"
        /\ proc[p].path = "build"
        /\ proc[p].contextTemplate = ContextTemplate
        /\ proc[p].calls = Batches(Len(vocab))
        /\ ~proc[p].fault
        /\ proc[0].contextTemplate = DefaultTemplate /\ proc[0].path = "build"
        /\ metaFile.signature = SignatureFor(ContextTemplate)
        /\ matrix.data = BuiltMatrix(vocab, ContextTemplate)
        /\ matrix.data # BuiltMatrix(vocab, DefaultTemplate)

\* what reading the cache files can raise: l.142 (readFile, JSON.parse), l.144
CacheReadErrors ==
    {"SyntaxError: JSON.parse", "readFile failed: meta.json",
     "readFile failed: vocab_embeddings.bin"}

\* C9: cache files that cannot be read or parsed, or that carry another
\* signature, make the call rebuild: none of this ends a call with an error.
C9_CorruptCacheRebuilds ==
    \A p \in Procs :
        proc[p].pc = "done" => proc[p].res.error \notin CacheReadErrors

\* the rows a build over these texts makes when every batch is answered with
\* one vector per text (l.159-174)
BuiltFrom(texts) == Concat([i \in 1..Len(texts) |-> normalizeVec(Emb(texts[i]))])

\* handler p's write of the blob or of meta.json fails in this step
SaveFails(p) ==
    /\ At(p, "writeBin") \/ At(p, "writeMeta")
    /\ proc'[p].pc = "done"
    /\ proc'[p].res.status = "error"

\* C10: when the write of the blob or of meta.json fails, the caller gets the
\* error and nothing in memory is rolled back: `matrix` is the matrix this
\* rebuild has built in full, its rows normalized, and normalized is true.
C10_SaveFailureKeepsMatrix ==
    [][\A p \in Handlers :
          SaveFails(p) =>
              /\ proc'[p].res.error \in {"writeFile failed: vocab_embeddings.bin",
                                         "writeFile failed: meta.json"}
              /\ UNCHANGED <<matrix, normalized, vocab, dim>>
              /\ normalized = TRUE
              /\ matrix.data = BuiltFrom(proc[p].texts)]_vars

\* the texts handler p is about to hand to embedMany: the words of the request
\* (l.285), or the next batch of the vocabulary (l.160)
PendingTexts(p) ==
    IF At(p, "search_embedMany")
    THEN wordsToTexts(FlatWords(proc[p].args), proc[p].contextTemplate)
    ELSE SubSeq(proc[p].texts, proc[p].i + 1, Min(proc[p].i + batchSize, proc[p].n))

\* C11: whatever the provider answers, embedMany fails or returns one vector of
\* length dim per text; and a handler whose provider answered with the wrong
\* count or with malformed output ends with an error in that very step.
C11_EmbedManyContract ==
    [][\A p \in Procs :
          /\ (At(p, "search_embedMany") \/ At(p, "embedMany"))
                 => \A out \in ProviderOutputs(PendingTexts(p)) :
                        LET r == embedMany(out, dim)
                        IN  r.err = "" =>
                               /\ Len(r.vecs) = Len(PendingTexts(p))
                               /\ \A i \in 1..Len(r.vecs) : Len(r.vecs[i]) = dim
          /\ (~proc[p].fault /\ proc'[p].fault)
                 => (proc'[p].pc = "done" /\ proc'[p].res.status = "error")]_vars

\* handler p's search has got past l.312: proc[p].ranked is what topKSimilar
\* returned to it
Ranked(p) == proc[p].kind = "search" /\ proc[p].pc = "done" /\ proc[p].reduced # "none"

\* C12: the list topKSimilar returns is ordered by non-increasing score, holds
\* no word of the exclusion set and no vocabulary row twice.
C12_SortedNoExcludedNoRepeat ==
    \A p \in Handlers :
        Ranked(p) =>
            LET r == proc[p].ranked
            IN  /\ \A i \in 1..(Len(r) - 1) : r[i].score >= r[i + 1].score
                /\ \A i \in 1..Len(r) : Str(r[i].word) \notin ExcludeSet(proc[p].args)
                /\ \A i, j \in 1..Len(r) : i # j => r[i].index # r[j].index

\* three neighbors of falling scores, ranked with a vocabulary word excluded
C12_ThreeRanked ==
    \E p \in Handlers :
        /\ Ranked(p)
        /\ Len(proc[p].ranked) = 3
        /\ proc[p].ranked[1].score > proc[p].ranked[2].score
        /\ proc[p].ranked[2].score > proc[p].ranked[3].score
        /\ \E i \in 1..Len(vocab) : Str(vocab[i]) \in ExcludeSet(proc[p].args)

\* the words of the exclusion set that are words of the vocabulary
ExcludedRows(args) == {i \in 1..Len(vocab) : Str(vocab[i]) \in ExcludeSet(args)}

\* C13: for k larger than the vocabulary, topKSimilar returns at most
\* vocabularySize - |exclude| results, whatever the exclusion set holds.
C13_AtMostSizeLessExcluded ==
    \A p \in Handlers :
        (Ranked(p) /\ proc[p].args.k > Len(vocab))
            => Len(proc[p].ranked) <= Len(vocab) - Cardinality(ExcludeSet(proc[p].args))

\* C13 as amended: for k larger than the vocabulary, topKSimilar returns at most
\* vocabularySize less the number of vocabulary words in the exclusion set.
C13_AtMostSizeLessExcludedRows ==
    \A p \in Handlers :
        (Ranked(p) /\ proc[p].args.k > Len(vocab))
            => Len(proc[p].ranked) <= Len(vocab) - Cardinality(ExcludedRows(proc[p].args))

\* k above the vocabulary size, and an exclusion set with a vocabulary word
\* and with values that are no vocabulary words
C13_ExcludedAbsentWords ==
    \E p \in Handlers :
        /\ Ranked(p)
        /\ proc[p].args.k > Len(vocab)
        /\ ExcludedRows(proc[p].args) # {}
        /\ Cardinality(ExcludeSet(proc[p].args)) > Cardinality(ExcludedRows(proc[p].args))
        /\ proc[p].ranked # <<>>

\* C14: vocabulary rows of equal score are returned in ascending row-index
\* order.
C14_TiesByRowIndex ==
    \A p \in Handlers :
        Ranked(p) =>
            \A i, j \in 1..Len(proc[p].ranked) :
                (i < j /\ proc[p].ranked[i].score = proc[p].ranked[j].score)
                    => proc[p].ranked[i].index < proc[p].ranked[j].index

\* two rows of the same score among the neighbors
C14_Tie ==
    \E p \in Handlers :
        /\ Ranked(p)
        /\ \E i \in 1..(Len(proc[p].ranked) - 1) :
              proc[p].ranked[i].score = proc[p].ranked[i + 1].score

\* the request with the entries of l.279 taken out of its pair list
Cleaned(args) == [args EXCEPT !.pairs = ValidPairs(@)]

\* what a provider that answers one vector per text, in order, gives the search
\* of l.285-286
EmbsOf(args, template) ==
    [i \in 1..Len(FlatWords(args)) |-> Emb(wordsToTexts(FlatWords(args), template)[i])]

\* C15: the response to a request is the response to the same request with the
\* pair entries whose members are not both strings removed.
C15_MalformedPairsDropped ==
    \A p \in Handlers :
        (Answered(p) /\ ~proc[p].fault)
            => proc[p].res = Response(Cleaned(proc[p].args),
                                      EmbsOf(proc[p].args, proc[p].contextTemplate), "ok")

\* the words of a request: its target and the members of its seed pairs
InputWords(args) == {FlatWords(args)[i] : i \in 1..Len(FlatWords(args))}

RankedWords(p) == {proc[p].ranked[i].word : i \in 1..Len(proc[p].ranked)}

\* C16: with excludeInputs no neighbor is the target or a word of a seed pair;
\* without it the exclusion set is empty and every input word of the
\* vocabulary is a neighbor when k admits the whole vocabulary.
C16_InputsExcludedOrEligible ==
    \A p \in Handlers :
        Ranked(p) =>
            /\ proc[p].args.excludeInputs => RankedWords(p) \cap InputWords(proc[p].args) = {}
            /\ ~proc[p].args.excludeInputs =>
                   /\ ExcludeSet(proc[p].args) = {}
                   /\ proc[p].args.k >= Len(vocab) =>
                          \A i \in 1..Len(vocab) :
                              vocab[i] \in InputWords(proc[p].args) => vocab[i] \in RankedWords(p)

\* neighbors ranked while the target and a seed word, both in the vocabulary,
\* were excluded
C16_InputsExcluded ==
    \E p \in Handlers :
        /\ Ranked(p)
        /\ proc[p].args.excludeInputs
        /\ proc[p].ranked # <<>>
        /\ \E i, j \in 1..Len(vocab) :
              /\ vocab[i] = proc[p].args.target
              /\ vocab[j] # vocab[i]
              /\ vocab[j] \in InputWords(proc[p].args)

\* the provider's vector for word w under the template of handler p
EmbeddingOf(p, w) == Emb(wordsToTexts(<<w>>, proc[p].contextTemplate)[1])

\* to_i - from_i for the i-th valid pair of handler p's request (i from 1)
PairDelta(p, i) ==
    LET pr == ValidPairs(proc[p].args.pairs)[i]
    IN  [j \in 1..dim |-> EmbeddingOf(p, pr[2].val)[j] - EmbeddingOf(p, pr[1].val)[j]]

\* C17: with a provider that answers in input order, delta i is embedding(to_i)
\* - embedding(from_i), avgDelta their component-wise mean, the target's
\* embedding the last vector, and the raw translated vector the target's
\* embedding plus avgDelta.
C17_DeltaArithmetic ==
    \A p \in Handlers :
        (Answered(p) /\ ~proc[p].fault) =>
            LET m == Len(ValidPairs(proc[p].args.pairs))
                embs == EmbsOf(proc[p].args, proc[p].contextTemplate)
                target == EmbeddingOf(p, proc[p].args.target)
            IN  /\ \A i \in 1..m : Delta(embs, i, dim) = PairDelta(p, i)
                /\ m > 0 =>
                       proc[p].res.avgDelta =
                           [j \in 1..dim |->
                               RoundDiv(SumSeq([i \in 1..m |-> PairDelta(p, i)[j]]), m)]
                /\ proc[p].res.targetEmbedding = target
                /\ proc[p].res.transformedRaw =
                       [j \in 1..dim |-> target[j] + proc[p].res.avgDelta[j]]

\* a response to two valid pairs of different deltas
C17_TwoDeltas ==
    \E p \in Handlers :
        /\ Answered(p)
        /\ ~proc[p].fault
        /\ Len(ValidPairs(proc[p].args.pairs)) = 2
        /\ PairDelta(p, 1) # PairDelta(p, 2)
        /\ proc[p].res.avgDelta # Zeros(dim)

\* C18: with no valid seed pair the request does not fail, avgDelta is the zero
\* vector, and the vector the neighbors are ranked by is the normalized
\* embedding of the target.
C18_NoPairsNoTranslation ==
    \A p \in Handlers :
        (/\ proc[p].kind = "search"
         /\ proc[p].pc = "done"
         /\ ~proc[p].fault
         /\ ValidPairs(proc[p].args.pairs) = <<>>)
            => /\ proc[p].res.status = "ok"
               /\ proc[p].res.avgDelta = Zeros(dim)
               /\ proc[p].res.transformed =
                      normalizeVec(EmbeddingOf(p, proc[p].args.target))
               /\ proc[p].ranked =
                      topKSimilar(normalizeVec(EmbeddingOf(p, proc[p].args.target)),
                                  proc[p].args.k, ExcludeSet(proc[p].args))

\* C19: when the reduction routine fails, the search is answered all the same:
\* every point at (0, 0, 0), the explained variance zero, the neighbors as
\* topKSimilar ranked them.
C19_ReductionFailureTolerated ==
    \A p \in Handlers :
        (Ranked(p) /\ proc[p].reduced = "throw") =>
            /\ proc[p].res.status = "ok"
            /\ proc[p].res.neighbors = NeighborsOut(proc[p].ranked)
            /\ \A i \in 1..Len(proc[p].res.points) :
                  /\ proc[p].res.points[i].x = 0
                  /\ proc[p].res.points[i].y = 0
                  /\ proc[p].res.points[i].z = 0
            /\ \A c \in 1..Len(proc[p].res.explainedVariance) :
                  proc[p].res.explainedVariance[c] = 0

NoDuplicates(ws) == \A i, j \in 1..Len(ws) : i # j => ws[i] # ws[j]

\* the place of the first line of the file that is word w once trimmed
FirstLine(w) ==
    CHOOSE i \in 1..Len(vocabFile.lines) :
        /\ trim(vocabFile.lines[i]) = w
        /\ \A j \in 1..(i - 1) : trim(vocabFile.lines[j]) # w

\* loadVocab has returned to handler p
Loaded(p) == At(p, "ensureEmbedder")

\* C20: the vocabulary loadVocab yields has no duplicates; from a file it is
\* the trimmed non-empty lines, each once, in the order of their first
\* occurrences; without a file it is, with no error, the built-in list, which
\* has at least 10 words and no duplicates.
C20_VocabDeduped ==
    /\ \A p \in Procs :
          Loaded(p) =>
              /\ NoDuplicates(vocab)
              /\ vocabFile.exists =>
                     /\ {vocab[i] : i \in 1..Len(vocab)} =
                            {trim(vocabFile.lines[i]) : i \in 1..Len(vocabFile.lines)} \ {""}
                     /\ \A i, j \in 1..Len(vocab) :
                            i < j => FirstLine(vocab[i]) < FirstLine(vocab[j])
              /\ ~vocabFile.exists => vocab = DefaultVocab
    /\ ~vocabFile.exists =>
          /\ \A p \in Procs : proc[p].res.status # "error"
          /\ Len(DefaultVocab) >= 10
          /\ NoDuplicates(DefaultVocab)

\* two words loaded from a file with a repeated word, an empty line and white
\* space around a word
C20_LoadedFromFile ==
    \E p \in Procs :
        /\ Loaded(p)
        /\ vocabFile.exists
        /\ Len(vocab) = 2
        /\ Len(vocabFile.lines) > 2
        /\ \E i \in 1..Len(vocabFile.lines) : vocabFile.lines[i].pad # ""

\* C21: once the server is listening, no request reads the vocabulary source
\* or fails because it cannot be read.
C21_VocabReadAtStartupOnly ==
    \A p \in Handlers :
        /\ proc[p].pc \notin {"loadVocab_pathExists", "loadVocab_readFile"}
        /\ proc[p].res.error # "readFile failed: vocab.txt"

\* C22: no request is accepted before the initial build has completed
\* successfully; when it fails the server never listens; every search that is
\* handled finds a matrix in memory.
C22_ListenAfterBoot ==
    /\ server # "listening" => \A p \in Handlers : proc[p].pc = "idle"
    /\ server = "listening" => (proc[0].pc = "done" /\ proc[0].res.status = "ok")
    /\ (proc[0].pc = "done" /\ proc[0].res.status = "error") => server = "crashed"
    /\ \A p \in Handlers : proc[p].kind = "search" => ~matrix.isNull

\* a search in flight on the listening server, after a rebuild that failed
C22_SearchHandled ==
    \E p, q \in Handlers :
        /\ server = "listening"
        /\ proc[p].kind = "search"
        /\ InFlight(p)
        /\ proc[q].kind = "rebuild"
        /\ proc[q].res.status = "error"

\* C23: whenever a search ranks neighbors, the matrix in memory has one row of
\* dim entries per vocabulary word, row i the embedding of vocab[i].
C23_RowsMatchVocab ==
    [][\A p \in Handlers :
          Ranks(p) =>
              /\ Len(matrix.data) = Len(vocab) * dim
              /\ \E t \in AllTemplates : matrix.data = BuiltMatrix(vocab, t)]_vars

\* two rebuild requests of different templates have overlapped and have both
\* been answered without error, the provider having answered one vector per
\* text and the files not having been touched from outside
OverlappedRebuilds(p, q) ==
    /\ p # q
    /\ proc[p].kind = "rebuild" /\ proc[q].kind = "rebuild"
    /\ proc[p].pc = "done" /\ proc[q].pc = "done"
    /\ proc[p].res.status = "ok" /\ proc[q].res.status = "ok"
    /\ proc[p].contextTemplate # proc[q].contextTemplate
    /\ ~proc[p].alone /\ ~proc[q].alone
    /\ \A r \in Procs : ~proc[r].fault
    /\ edits = 0

\* C24: after two overlapping rebuilds of different templates, the matrix in
\* memory is the one that one of the two templates alone produces, and the
\* blob and the signature on disk are those of that matrix.
C24_OverlapNeverMixes ==
    \A p, q \in Handlers :
        OverlappedRebuilds(p, q) =>
            \E t \in {proc[p].contextTemplate, proc[q].contextTemplate} :
                /\ matrix.data = BuiltMatrix(vocab, t)
                /\ binFile.exists /\ binFile.data = matrix.data
                /\ metaFile.state = "ok" /\ metaFile.signature = SignatureFor(t)

\* handler p's build ends well in this step, the provider having answered it
\* one vector per text
BuildSucceeds(p) ==
    /\ At(p, "writeMeta")
    /\ proc'[p].pc = "done"
    /\ proc'[p].res.status = "ok"
    /\ ~proc[p].fault

\* C25: after a successful rebuild with a provider that answers one vector per
\* text, row i of the matrix is the normalized embedding of the i-th text, the
\* loop has called the provider once per batch, and normalized is true.
C25_RowsAfterRebuild ==
    [][\A p \in Procs :
          BuildSucceeds(p) =>
              /\ matrix'.data = BuiltFrom(proc[p].texts)
              /\ proc'[p].calls = Batches(Len(proc[p].texts))
              /\ normalized' = TRUE]_vars

\* the score of vocabulary row i (from 1) for the query of handler p's answered
\* search (l.183-187)
ScoreOfRow(p, i) ==
    dot(getRow(matrix.data, dim, i - 1),
        IF normalized THEN normalizeVec(proc[p].res.transformed)
        ELSE proc[p].res.transformed)

\* C26: for k >= 1 topKSimilar returns exactly min(k, number of vocabulary words
\* not excluded) results, each with the score of its row, and no vocabulary
\* word that is neither excluded nor returned scores above a returned one.
C26_ExactTopK ==
    \A p \in Handlers :
        (Answered(p) /\ proc[p].args.k >= 1) =>
            LET r == proc[p].ranked
                free == (1..Len(vocab)) \ ExcludedRows(proc[p].args)
                returned == {r[j].index + 1 : j \in 1..Len(r)}
            IN  /\ Len(r) = Min(proc[p].args.k, Cardinality(free))
                /\ returned \subseteq free
                /\ \A j \in 1..Len(r) : r[j].score = ScoreOfRow(p, r[j].index + 1)
                /\ \A i \in free \ returned :
                      \A j \in 1..Len(r) : ScoreOfRow(p, i) <= r[j].score

\* fewer neighbors asked for than there are words to return, a word left out
\* scoring below the last one returned
C26_SomeLeftOut ==
    \E p \in Handlers :
        /\ Answered(p)
        /\ proc[p].args.k >= 1
        /\ Len(proc[p].ranked) = proc[p].args.k
        /\ \E i \in 1..Len(vocab) :
              /\ i \notin ExcludedRows(proc[p].args)
              /\ ScoreOfRow(p, i) < proc[p].ranked[Len(proc[p].ranked)].score

\* C27: a step of a search, a matrix being in memory, leaves the matrix, the
\* vocabulary, the dimension, the normalized flag and the two cache files as
\* they are, whether the search succeeds or fails.
C27_SearchChangesNothing ==
    [][\A p \in Handlers :
          (proc'[p].kind = "search" /\ Steps(p) /\ ~matrix.isNull)
              => UNCHANGED <<matrix, vocab, dim, normalized, metaFile, binFile>>]_vars

\* a search has failed and another has been answered, on a built matrix
C27_SearchesDone ==
    \E p, q \in Handlers :
        /\ proc[p].kind = "search" /\ proc[p].pc = "done" /\ proc[p].res.status = "error"
        /\ Answered(q)
        /\ ~matrix.isNull
        /\ normalized

\* the places of the points of a kind in the response of handler p
PointsOfKind(p, kind) ==
    {i \in 1..Len(proc[p].res.points) : proc[p].res.points[i].kind = kind}

\* C28: the points of a response are one neighbor point per neighbor, one
\* target point, one predicted point and, with includeSeeds only, one seedFrom
\* and one seedTo point per valid pair; there is one seed link per valid pair
\* with includeSeeds and none without, and the two ends of every seed link are
\* ids of points of the response.
C28_PointSet ==
    \A p \in Handlers :
        Answered(p) =>
            LET pts == proc[p].res.points
                m == IF proc[p].args.includeSeeds
                     THEN Len(ValidPairs(proc[p].args.pairs)) ELSE 0
            IN  /\ Cardinality(PointsOfKind(p, "neighbor")) = Len(proc[p].res.neighbors)
                /\ \A j \in 1..Len(proc[p].res.neighbors) :
                      \E i \in PointsOfKind(p, "neighbor") :
                          pts[i].label = <<proc[p].res.neighbors[j].word>>
                /\ Cardinality(PointsOfKind(p, "target")) = 1
                /\ Cardinality(PointsOfKind(p, "predicted")) = 1
                /\ Cardinality(PointsOfKind(p, "seedFrom")) = m
                /\ Cardinality(PointsOfKind(p, "seedTo")) = m
                /\ Len(pts) = Len(proc[p].res.neighbors) + 2 + 2 * m
                /\ Len(proc[p].res.seedLinks) = m
                /\ \A l \in 1..Len(proc[p].res.seedLinks) :
                      /\ \E i \in PointsOfKind(p, "seedFrom") :
                            pts[i].id = proc[p].res.seedLinks[l].fromId
                      /\ \E i \in PointsOfKind(p, "seedTo") :
                            pts[i].id = proc[p].res.seedLinks[l].toId

\* a response with neighbors and with the seeds of two valid pairs
C28_WithSeeds ==
    \E p \in Handlers :
        /\ Answered(p)
        /\ proc[p].args.includeSeeds
        /\ Len(proc[p].res.seedLinks) = 2
        /\ Len(proc[p].res.neighbors) >= 1

\* C29: in every response, each neighbor point carries the score of the
\* neighbor of its word, whatever that score is, and no other point carries a
\* score.
C29_NeighborPointScores ==
    \A p \in Handlers :
        Answered(p) =>
            \A i \in 1..Len(proc[p].res.points) :
                IF proc[p].res.points[i].kind = "neighbor"
                THEN \E j \in 1..Len(proc[p].res.neighbors) :
                        /\ proc[p].res.points[i].label = <<proc[p].res.neighbors[j].word>>
                        /\ proc[p].res.points[i].score =
                               NotNull(proc[p].res.neighbors[j].score)
                ELSE proc[p].res.points[i].score = Null

\* C30: a call of buildOrLoadEmbeddingMatrix whose awaits all return ends, with
\* the cache built or with an error, whatever the vocabulary and the configured
\* batch size.
C30_BuildEnds == <>(proc[0].pc = "done")

====
